---- MODULE Spec2Model ----
(***************************************************************************)
(* create-pywire-app: the interactive flow of main() and the file tree     *)
(* written by ProjectGenerator.generate(), from                            *)
(* src/src/create_pywire_app/main.py.                                      *)
(*                                                                         *)
(* Text that the program inspects (the dependency specifier, the version   *)
(* label, the output of `uv pip compile`) is a sequence of one-character   *)
(* strings, so that concatenation, `"@" in s` and the regular-expression   *)
(* search are computed.  Paths are sequences of path segments relative to  *)
(* project_path; template identifiers are sequences of path segments       *)
(* relative to the package's templates/ directory.                         *)
(***************************************************************************)
EXTENDS Naturals, Sequences, FiniteSets, TLC

VARIABLES
    pc,                       \* position in main()
    use_local,                \* os.environ.get("USE_LOCAL_PYWIRE") == "1"
    pywire_version_arg,       \* args.pywire_version
    pywire_dep,               \* dependency specifier handed to the generator
    pywire_version_display,   \* version label printed under the logo
    project_location,         \* answers of the five request prompts
    template,
    routing_strategy,
    use_src,
    adapters,
    defaults_accepted,        \* every request prompt so far was answered with its default
    dirs,                     \* directories created under project_path
    files,                    \* files written, in the order they were written
    not_found,                \* templates generate() needs that the package lacks
    raised,                   \* the exception that left the try block of main()
    resolve_calls,            \* arguments resolve_pywire_version was called with
    calls,                    \* subprocess.run calls, in order, with their outcome
    console,                  \* lines printed with console.print, in order
    git_initialized,
    sync_success,
    should_show_instructions,
    commands,                 \* command list of the final panel
    exit_status               \* status the process terminated with

vars == <<pc, use_local, pywire_version_arg, pywire_dep, pywire_version_display,
          project_location, template, routing_strategy, use_src, adapters,
          defaults_accepted, dirs, files, not_found, raised, resolve_calls, calls, console, git_initialized,
          sync_success, should_show_instructions, commands, exit_status>>

-----------------------------------------------------------------------------
(* Bounds of the model *)

\* at most this many template files are absent from the installed package
MaxMissing == 1

-----------------------------------------------------------------------------
(* Python values *)

None == [tag |-> "None"]
Some(v) == [tag |-> "Some", val |-> v]

\* truth value of an Optional[str] in a Python condition
Truthy(o) == o.tag = "Some" /\ Len(o.val) > 0

Range(s) == {s[i] : i \in 1..Len(s)}

\* `c in s` for a one-character c
Contains(s, c) == \E i \in 1..Len(s) : s[i] = c

\* s[i:i+len(p)] == p
MatchAt(s, p, i) ==
    /\ i + Len(p) - 1 <= Len(s)
    /\ \A k \in 1..Len(p) : s[i + k - 1] = p[k]

Whitespace == {" ", "\n", "\t", "\r"}

\* length of the longest run of non-whitespace characters of s starting at i
RECURSIVE RunLen(_, _)
RunLen(s, i) ==
    IF i > Len(s) \/ s[i] \in Whitespace THEN 0 ELSE 1 + RunLen(s, i + 1)

-----------------------------------------------------------------------------
(* String literals of the program *)

S_pywire == <<"p","y","w","i","r","e">>
S_eqeq   == <<"=","=">>
S_Latest == <<"L","a","t","e","s","t">>
S_LocalSource == <<"L","o","c","a","l"," ","(","S","o","u","r","c","e",")">>
S_LocalSuffix == <<" ","(","L","o","c","a","l",")">>
S_LocalDep ==
    S_pywire \o <<" ","@"," ">>
    \o <<"/","U","s","e","r","s">>
    \o <<"/","r","h","o","l","m","d","a","h","l">>
    \o <<"/","p","r","o","j","e","c","t","s">>
    \o <<"/","p","y","w","i","r","e","-","w","o","r","k","s","p","a","c","e">>
    \o <<"/">> \o S_pywire
S_markdown   == <<"m","a","r","k","d","o","w","n",">","=","3",".","6">>
S_stripe     == <<"s","t","r","i","p","e",">","=","7",".","0",".","0">>
S_sqlalchemy == <<"s","q","l","a","l","c","h","e","m","y",">","=","2",".","0",".","0">>

Docker == "Docker (Dockerfile)"
Render == "Render (render.yaml)"

-----------------------------------------------------------------------------
(* Version resolution *)

\* re.search(r"pywire==([^\s]+)", stdout): group 1 of the leftmost match
re_search_pywire(stdout) ==
    LET pat == S_pywire \o S_eqeq
        hits == {i \in 1..Len(stdout) :
                    MatchAt(stdout, pat, i) /\ RunLen(stdout, i + Len(pat)) >= 1}
    IN  IF hits = {} THEN None
        ELSE LET i == CHOOSE h \in hits : \A g \in hits : h <= g
                 b == i + Len(pat)
             IN  Some(SubSeq(stdout, b, b + RunLen(stdout, b) - 1))

\* whether resolve_pywire_version(pywire_dep) gets as far as subprocess.run
resolve_runs_uv(dep) == ~Contains(dep, "@")

\* resolve_pywire_version(pywire_dep), given how `uv pip compile` ends;
\* CalledProcessError, TimeoutExpired and FileNotFoundError are caught
resolve_pywire_version(dep, run) ==
    IF ~resolve_runs_uv(dep) THEN None
    ELSE IF run.result = "ok" THEN re_search_pywire(run.stdout)
    ELSE None

\* mutant: an explicit --pywire-version is looked at before the local override
select_dependency_flag_first(local, arg, lf) ==
    IF Truthy(arg)
    THEN [dep |-> S_pywire \o S_eqeq \o arg.val, display |-> arg.val]
    ELSE IF local
    THEN [dep     |-> S_LocalDep,
          display |-> IF lf.exists /\ lf.match.tag = "Some"
                      THEN lf.match.val \o S_LocalSuffix
                      ELSE S_LocalSource]
    ELSE [dep |-> S_pywire, display |-> S_Latest]

\* the branch on use_local / args.pywire_version that sets pywire_dep and
\* pywire_version_display; lf is the local _version.py file
select_dependency(local, arg, lf) ==
    IF local
    THEN [dep     |-> S_LocalDep,
          display |-> IF lf.exists /\ lf.match.tag = "Some"
                      THEN lf.match.val \o S_LocalSuffix
                      ELSE S_LocalSource]
    ELSE IF Truthy(arg)
    THEN [dep |-> S_pywire \o S_eqeq \o arg.val, display |-> arg.val]
    ELSE [dep |-> S_pywire, display |-> S_Latest]

\* the guard of the "Resolving version..." block
should_resolve(local, display) == ~local /\ display = S_Latest

-----------------------------------------------------------------------------
(* ProjectGenerator *)

app_root(us)  == IF us THEN <<"src">> ELSE <<>>
pages_dir(us) == app_root(us) \o <<"pages">>

Parent(p) == SubSeq(p, 1, Len(p) - 1)

\* mutant: the blog extra is appended for the saas starter as well
get_dependencies_shared_extra(tmpl, dep) ==
    <<dep>>
    \o (IF tmpl \in {"blog", "saas"} THEN <<S_markdown>> ELSE <<>>)
    \o (IF tmpl = "saas" THEN <<S_stripe, S_sqlalchemy>> ELSE <<>>)

get_dependencies(tmpl, dep) ==
    <<dep>>
    \o (IF tmpl = "blog" THEN <<S_markdown>> ELSE <<>>)
    \o (IF tmpl = "saas" THEN <<S_stripe, S_sqlalchemy>> ELSE <<>>)

get_deploy_config(ads) ==
    IF Docker \in ads THEN Some("docker")
    ELSE IF Render \in ads THEN Some("render")
    ELSE None

\* the three kinds of filesystem step generate() takes
MkdirOp(p, parents) == [op |-> "mkdir", path |-> p, parents |-> parents]
RenderOp(t, p, ctx) == [op |-> "render", tmpl |-> t, path |-> p, ctx |-> ctx]
CopyOp(t, p)        == [op |-> "copy", tmpl |-> t, path |-> p, ctx |-> None]

NameCtx(name) == Some([project_name |-> name])

get_template_description(tmpl) ==
    CASE tmpl = "skeleton" -> "A blank slate with only a single page."
      [] tmpl = "counter"  -> "A minimal counter app demonstrating interactivity."
      [] tmpl = "blog"     ->
            "A blog and portfolio starter with Markdown content stored in SQLite."
      [] tmpl = "saas"     ->
            "A SaaS starter with Stripe, SQLAlchemy models, and stubbed auth."
      [] OTHER             -> ""

_generate_pyproject(name, tmpl, ads, dep) ==
    <<RenderOp(<<"common", "pyproject.toml.j2">>, <<"pyproject.toml">>,
               Some([project_name  |-> name,
                     dependencies  |-> get_dependencies(tmpl, dep),
                     deploy_config |-> get_deploy_config(ads)]))>>

_generate_readme(name, tmpl, routing) ==
    <<RenderOp(<<"common", "README.md.j2">>, <<"README.md">>,
               Some([project_name  |-> name,
                     template_description |-> get_template_description(tmpl),
                     routing_style |-> IF routing = "path" THEN "Path-based"
                                       ELSE "Explicit"]))>>

_generate_gitignore ==
    <<CopyOp(<<"common", ".gitignore">>, <<".gitignore">>)>>

_generate_vscode_settings ==
    <<MkdirOp(<<".vscode">>, FALSE),
      CopyOp(<<"common", "extensions.json">>, <<".vscode", "extensions.json">>)>>

_generate_main(routing, us) ==
    <<RenderOp(<<"common", IF routing = "path" THEN "main-path.py.j2"
                           ELSE "main-explicit.py.j2">>,
               app_root(us) \o <<"main.py">>,
               Some([pages_dir |-> pages_dir(us)]))>>

_generate_error_page(us) ==
    <<CopyOp(<<"common", "__error__.wire">>, pages_dir(us) \o <<"__error__.wire">>)>>

_generate_skeleton(name, routing, us) ==
    <<RenderOp(<<"skeleton", "index.wire.j2">>, pages_dir(us) \o <<"index.wire">>,
               Some([project_name |-> name, routing |-> routing]))>>

_generate_counter(name, routing, us) ==
    LET pg == pages_dir(us) IN
    IF routing = "path"
    THEN <<RenderOp(<<"counter", "path-based", "__layout__.wire.j2">>,
                    pg \o <<"__layout__.wire">>, NameCtx(name)),
           CopyOp(<<"counter", "path-based", "index.wire">>, pg \o <<"index.wire">>)>>
    ELSE <<RenderOp(<<"counter", "explicit", "layout.wire.j2">>,
                    pg \o <<"layout.wire">>, NameCtx(name)),
           CopyOp(<<"counter", "explicit", "home.wire">>, pg \o <<"home.wire">>)>>

_generate_blog(name, routing, us) ==
    LET pg == pages_dir(us) IN
    <<MkdirOp(app_root(us) \o <<"data">>, FALSE)>>
    \o (IF routing = "path"
        THEN <<MkdirOp(pg \o <<"posts">>, FALSE),
               RenderOp(<<"blog", "path-based", "__layout__.wire.j2">>,
                        pg \o <<"__layout__.wire">>, NameCtx(name)),
               RenderOp(<<"blog", "path-based", "posts__layout__.wire.j2">>,
                        pg \o <<"posts", "__layout__.wire">>, NameCtx(name)),
               CopyOp(<<"blog", "path-based", "index.wire">>, pg \o <<"index.wire">>),
               CopyOp(<<"blog", "path-based", "posts_index.wire">>,
                      pg \o <<"posts", "index.wire">>),
               CopyOp(<<"blog", "path-based", "posts_slug.wire">>,
                      pg \o <<"posts", "[slug].wire">>)>>
        ELSE <<RenderOp(<<"blog", "explicit", "layout.wire.j2">>,
                        pg \o <<"layout.wire">>, NameCtx(name)),
               CopyOp(<<"blog", "explicit", "home.wire">>, pg \o <<"home.wire">>),
               CopyOp(<<"blog", "explicit", "blog-posts.wire">>,
                      pg \o <<"blog-posts.wire">>),
               CopyOp(<<"blog", "explicit", "about.wire">>, pg \o <<"about.wire">>)>>)

_generate_saas(name, routing, us) ==
    LET pg == pages_dir(us) IN
    <<CopyOp(<<"saas", "models.py">>, app_root(us) \o <<"models.py">>)>>
    \o (IF routing = "path"
        THEN <<MkdirOp(pg \o <<"dashboard">>, FALSE),
               RenderOp(<<"saas", "path-based", "__layout__.wire.j2">>,
                        pg \o <<"__layout__.wire">>, NameCtx(name)),
               RenderOp(<<"saas", "path-based", "dashboard__layout__.wire.j2">>,
                        pg \o <<"dashboard", "__layout__.wire">>, NameCtx(name)),
               CopyOp(<<"saas", "path-based", "index.wire">>, pg \o <<"index.wire">>),
               CopyOp(<<"saas", "path-based", "pricing.wire">>,
                      pg \o <<"pricing.wire">>),
               CopyOp(<<"saas", "path-based", "login.wire">>, pg \o <<"login.wire">>),
               CopyOp(<<"saas", "path-based", "dashboard_index.wire">>,
                      pg \o <<"dashboard", "index.wire">>),
               CopyOp(<<"saas", "path-based", "dashboard_settings.wire">>,
                      pg \o <<"dashboard", "settings.wire">>)>>
        ELSE <<RenderOp(<<"saas", "explicit", "public-layout.wire.j2">>,
                        pg \o <<"public-layout.wire">>, NameCtx(name)),
               RenderOp(<<"saas", "explicit", "auth-layout.wire.j2">>,
                        pg \o <<"auth-layout.wire">>, NameCtx(name)),
               CopyOp(<<"saas", "explicit", "landing.wire">>,
                      pg \o <<"landing.wire">>),
               CopyOp(<<"saas", "explicit", "pricing.wire">>,
                      pg \o <<"pricing.wire">>),
               CopyOp(<<"saas", "explicit", "login.wire">>, pg \o <<"login.wire">>),
               CopyOp(<<"saas", "explicit", "dashboard-pages.wire">>,
                      pg \o <<"dashboard-pages.wire">>)>>)

\* mutant: the platform manifest is written only when no container file is
_generate_adapters_exclusive(name, ads) ==
    IF Docker \in ads
    THEN <<CopyOp(<<"common", "Dockerfile">>, <<"Dockerfile">>)>>
    ELSE IF Render \in ads
    THEN <<RenderOp(<<"common", "render.yaml.j2">>, <<"render.yaml">>, NameCtx(name))>>
    ELSE <<>>

_generate_adapters(name, ads) ==
    (IF Docker \in ads
     THEN <<CopyOp(<<"common", "Dockerfile">>, <<"Dockerfile">>)>>
     ELSE <<>>)
    \o (IF Render \in ads
        THEN <<RenderOp(<<"common", "render.yaml.j2">>, <<"render.yaml">>,
                        NameCtx(name))>>
        ELSE <<>>)

\* mutant: the saas starter is layered on top of the blog starter
generate_template_files_layered(name, tmpl, routing, us) ==
    (IF tmpl = "skeleton" THEN _generate_skeleton(name, routing, us) ELSE <<>>)
    \o (IF tmpl = "counter" THEN _generate_counter(name, routing, us) ELSE <<>>)
    \o (IF tmpl \in {"blog", "saas"} THEN _generate_blog(name, routing, us) ELSE <<>>)
    \o (IF tmpl = "saas" THEN _generate_saas(name, routing, us) ELSE <<>>)

\* the template-specific part of generate()
generate_template_files(name, tmpl, routing, us) ==
    (IF tmpl = "skeleton" THEN _generate_skeleton(name, routing, us) ELSE <<>>)
    \o (IF tmpl = "counter" THEN _generate_counter(name, routing, us) ELSE <<>>)
    \o (IF tmpl = "blog" THEN _generate_blog(name, routing, us) ELSE <<>>)
    \o (IF tmpl = "saas" THEN _generate_saas(name, routing, us) ELSE <<>>)

\* generate(): every filesystem step it takes, in order
generate(name, tmpl, routing, us, ads, dep) ==
    <<MkdirOp(<<>>, TRUE), MkdirOp(app_root(us), FALSE), MkdirOp(pages_dir(us), FALSE)>>
    \o _generate_pyproject(name, tmpl, ads, dep)
    \o _generate_readme(name, tmpl, routing)
    \o _generate_gitignore
    \o _generate_main(routing, us)
    \o _generate_error_page(us)
    \o _generate_vscode_settings
    \o generate_template_files(name, tmpl, routing, us)
    \o _generate_adapters(name, ads)

\* the template identifiers a sequence of steps asks the renderer for
TemplatesOf(ops) == {ops[i].tmpl : i \in {j \in 1..Len(ops) : ops[j].op # "mkdir"}}

-----------------------------------------------------------------------------
(* TemplateRenderer and the filesystem *)

\* mutant: a template the package lacks is skipped and generation goes on
TemplateRenderer_skip(o, missing) ==
    IF o.tmpl \in missing
    THEN [raised |-> None, produced |-> FALSE]
    ELSE [raised |-> None, produced |-> TRUE]

\* render(template_path, context) and copy_static(source_path, dest): whether
\* the text for dest is produced, or what is raised before dest is opened
TemplateRenderer(o, missing) ==
    IF o.tmpl \in missing
    THEN [raised   |-> Some([exc  |-> IF o.op = "render" THEN "TemplateNotFound"
                                      ELSE "FileNotFoundError",
                             name |-> o.tmpl]),
          produced |-> FALSE]
    ELSE [raised |-> None, produced |-> TRUE]

\* every prefix of p, p included
Prefixes(p) == {SubSeq(p, 1, k) : k \in 0..Len(p)}

\* Path.mkdir(parents=..., exist_ok=True) on the tree st
Mkdir(st, o) ==
    IF o.parents THEN [st EXCEPT !.dirs = @ \cup Prefixes(o.path)]
    ELSE IF Parent(o.path) \notin st.dirs
    THEN [st EXCEPT !.error = Some([exc |-> "FileNotFoundError", name |-> o.path])]
    ELSE [st EXCEPT !.dirs = @ \cup {o.path}]

\* Path.write_text on the tree st: create or overwrite
WriteText(st, o) ==
    IF Parent(o.path) \notin st.dirs
    THEN [st EXCEPT !.error = Some([exc |-> "FileNotFoundError", name |-> o.path])]
    ELSE [st EXCEPT !.files = Append(@, [path |-> o.path, tmpl |-> o.tmpl,
                                         ctx |-> o.ctx])]

\* one step of generate(); an exception ends the run of steps
Step(st, o, missing) ==
    IF st.error # None THEN st
    ELSE IF o.op = "mkdir" THEN Mkdir(st, o)
    ELSE LET r == TemplateRenderer(o, missing) IN
         IF r.raised # None THEN [st EXCEPT !.error = r.raised]
         ELSE IF r.produced THEN WriteText(st, o)
         ELSE st

RECURSIVE RunOps(_, _, _, _)
RunOps(ops, i, st, missing) ==
    IF i > Len(ops) THEN st
    ELSE RunOps(ops, i + 1, Step(st, ops[i], missing), missing)

EmptyTree == [dirs |-> {}, files |-> <<>>, error |-> None]

-----------------------------------------------------------------------------
(* Inputs of a run *)

S_014 == <<"0",".","1",".","4">>
S_020 == <<"0",".","2",".","0">>

\* --pywire-version: absent, a released version, or the word Latest
PywireVersionArgs == {None, Some(S_014), Some(S_Latest)}

\* src/pywire/_version.py of the local checkout: absent, without a version
\* assignment, or with one
LocalVersionFiles ==
    {[exists |-> FALSE, match |-> None],
     [exists |-> TRUE,  match |-> None],
     [exists |-> TRUE,  match |-> Some(S_020)]}

\* how `uv pip compile - --quiet` can end
UvCompileRuns ==
    {[result |-> "ok", stdout |-> S_pywire \o S_eqeq \o S_014 \o <<"\n">>],
     [result |-> "ok", stdout |-> <<>>],
     [result |-> "ok", stdout |-> S_pywire \o S_eqeq \o <<"\n">>],
     [result |-> "CalledProcessError", stdout |-> <<>>],
     [result |-> "TimeoutExpired",     stdout |-> <<>>],
     [result |-> "FileNotFoundError",  stdout |-> <<>>]}

\* how a subprocess.run(..., check=True) of git or uv can end
RunResults == {"ok", "FileNotFoundError", "CalledProcessError"}

\* the destination prompt is answered with its default
Locations        == {<<".", "my-pywire-app">>}
TemplateChoices  == {"skeleton", "counter", "blog", "saas"}
RoutingChoices   == {"path", "explicit"}
AdapterChoices   == {Docker, Render}

\* the choices of the two select prompts, in the order they are listed
TemplateChoiceList == <<"skeleton", "counter", "blog", "saas">>
RoutingChoiceList  == <<"path", "explicit">>

\* what each request prompt answers when the user only presses Enter
location_default == <<".", "my-pywire-app">>

\* mutant: the template prompt starts on the first entry of its list
template_default_first == TemplateChoiceList[1]

\* questionary.select(..., default="counter")
template_default == "counter"

\* a select without default= starts on its first choice
routing_default  == RoutingChoiceList[1]
use_src_default  == TRUE
adapters_default == {}

\* Path(project_location).expanduser().resolve().name
ProjectName(loc) == loc[Len(loc)]

\* the subsets of S with at most k elements
RECURSIVE SetsUpTo(_, _)
SetsUpTo(S, k) ==
    IF k = 0 THEN {{}}
    ELSE LET smaller == SetsUpTo(S, k - 1)
         IN  smaller \cup {m \cup {t} : m \in smaller, t \in S}

\* which of the templates a request needs the installed package may lack
MissingSets(needed) == SetsUpTo(needed, MaxMissing)

-----------------------------------------------------------------------------
(* Console messages *)

MsgBanner        == "LOGO"
MsgLocalWarning  == "WARNING: Using local pywire dependency"
MsgGitSkipped    == "Git commit skipped (configure user.name/email to enable)."
MsgGitNotFound   == "Git not found, skipping commit"
MsgCreated       == "Project structure created"
MsgSynced        == "Environment optimized"
MsgSyncFailed    == "Failed to sync environment"
MsgUvNotFound    == "uv not found, skipping sync"
MsgDevFailed     == "Failed to start the dev server"
MsgUvNoServer    == "uv not found, cannot start server"
MsgStderr        == "e.stderr"
MsgPanel         == "Initialization Complete"
MsgAbort         == "System Aborted."

-----------------------------------------------------------------------------
(* Exception handlers and the final panel of main() *)

\* mutant: the interrupt handler reports and lets main() return normally
except_KeyboardInterrupt_return == [print |-> <<MsgAbort>>, status |-> Some(0)]

\* except KeyboardInterrupt: print the notice, sys.exit(1)
except_KeyboardInterrupt == [print |-> <<MsgAbort>>, status |-> Some(1)]

\* mutant: only a missing git executable is caught around `git init`
git_init_caught_notfound_only(r) == r = "FileNotFoundError"

\* except (FileNotFoundError, subprocess.CalledProcessError) around `git init`
git_init_caught(r) == r \in {"FileNotFoundError", "CalledProcessError"}

\* what that handler prints: it is `pass`
git_init_prints(r) == <<>>

\* the two except clauses around `git add` and `git commit`
git_commit_caught(r) == r \in {"FileNotFoundError", "CalledProcessError"}

\* mutant: a missing git executable is skipped silently here too
git_commit_prints_silent_notfound(r, has_stderr) ==
    IF r = "CalledProcessError"
    THEN <<MsgGitSkipped>> \o (IF has_stderr THEN <<MsgStderr>> ELSE <<>>)
    ELSE <<>>

\* what those two handlers print
git_commit_prints(r, has_stderr) ==
    IF r = "CalledProcessError"
    THEN <<MsgGitSkipped>> \o (IF has_stderr THEN <<MsgStderr>> ELSE <<>>)
    ELSE IF r = "FileNotFoundError" THEN <<MsgGitNotFound>>
    ELSE <<>>

\* the two except clauses around `uv sync`
uv_sync_caught(r) == r \in {"FileNotFoundError", "CalledProcessError"}

\* what the `uv sync` block prints
uv_sync_prints(r) ==
    IF r = "ok" THEN <<MsgSynced>>
    ELSE IF r = "CalledProcessError" THEN <<MsgSyncFailed, MsgStderr>>
    ELSE IF r = "FileNotFoundError" THEN <<MsgUvNotFound>>
    ELSE <<>>

\* mutant: a dev server that exits non-zero is not caught
dev_server_caught_notfound_only(r) == r = "FileNotFoundError"

\* the two except clauses around `uv run pywire dev`
dev_server_caught(r) == r \in {"FileNotFoundError", "CalledProcessError"}

dev_server_prints(r) ==
    IF r = "CalledProcessError" THEN <<MsgDevFailed>>
    ELSE IF r = "FileNotFoundError" THEN <<MsgUvNoServer>>
    ELSE <<>>

\* os.name == "nt": the run is on a POSIX host
is_windows == FALSE

CmdCd(loc)    == [prog |-> "cd", args |-> loc]
CmdUvSync     == [prog |-> "uv", args |-> <<"sync">>]
CmdActivate(windows) ==
    IF windows THEN [prog |-> ".venv\\Scripts\\activate", args |-> <<>>]
    ELSE [prog |-> "source", args |-> <<".venv/bin/activate">>]
CmdPywireDev  == [prog |-> "pywire", args |-> <<"dev">>]

\* mutant: the manual sync line is left out of the panel
instruction_commands_no_sync(loc, synced, windows) ==
    <<CmdCd(loc), CmdActivate(windows), CmdPywireDev>>

\* the command list of the final panel
instruction_commands(loc, synced, windows) ==
    <<CmdCd(loc)>>
    \o (IF ~synced THEN <<CmdUvSync>> ELSE <<>>)
    \o <<CmdActivate(windows), CmdPywireDev>>

-----------------------------------------------------------------------------
(* main() *)

Call(cmd, r) == [cmd |-> cmd, result |-> r]

launchVars == <<use_local, pywire_version_arg>>
depVars    == <<pywire_dep, pywire_version_display>>
answerVars == <<project_location, template, routing_strategy, use_src, adapters,
                defaults_accepted>>
treeVars   == <<dirs, files, not_found>>
postVars   == <<git_initialized, sync_success, should_show_instructions, commands>>

\* mutant: the routing prompt is issued before the template prompt
PromptOrder_routing_first ==
    <<"ask_location", "ask_routing", "ask_template", "ask_use_src", "ask_adapters">>

\* the five request prompts, in the order main() issues them
PromptOrder ==
    <<"ask_location", "ask_template", "ask_routing", "ask_use_src", "ask_adapters">>

\* the statement of main() that follows the request prompt p: the next
\* prompt, or the generation after the last one
StepAfter(p) ==
    LET i == CHOOSE k \in 1..Len(PromptOrder) : PromptOrder[k] = p
    IN  IF i < Len(PromptOrder) THEN PromptOrder[i + 1] ELSE "generate"

PromptPcs == {"ask_location", "ask_template", "ask_routing", "ask_use_src",
              "ask_adapters", "ask_next"}

Init ==
    /\ pc = "start"
    /\ use_local \in BOOLEAN
    /\ pywire_version_arg \in PywireVersionArgs
    /\ pywire_dep = None
    /\ pywire_version_display = None
    /\ project_location = None
    /\ template = None
    /\ routing_strategy = None
    /\ use_src = None
    /\ adapters = None
    /\ defaults_accepted = TRUE
    /\ dirs = {}
    /\ files = <<>>
    /\ not_found = {}
    /\ raised = None
    /\ resolve_calls = <<>>
    /\ calls = <<>>
    /\ console = <<>>
    /\ git_initialized = FALSE
    /\ sync_success = FALSE
    /\ should_show_instructions = FALSE
    /\ commands = <<>>
    /\ exit_status = None

\* from the argument parser to the banner: choose the dependency specifier,
\* resolve the version label, print the logo
Startup ==
    /\ pc = "start"
    /\ \E lf \in LocalVersionFiles, run \in UvCompileRuns :
        LET sel      == select_dependency(use_local, pywire_version_arg, lf)
            resolve  == should_resolve(use_local, sel.display)
            resolved == IF resolve THEN resolve_pywire_version(sel.dep, run)
                        ELSE None
        IN  /\ pywire_dep' = Some(sel.dep)
            /\ pywire_version_display' =
                   IF resolve /\ Truthy(resolved) THEN resolved ELSE Some(sel.display)
            /\ resolve_calls' = IF resolve THEN <<sel.dep>> ELSE <<>>
            /\ calls' = IF resolve /\ resolve_runs_uv(sel.dep)
                        THEN <<[cmd |-> "uv pip compile", result |-> run.result,
                                stdout |-> run.stdout]>>
                        ELSE <<>>
    /\ console' = <<MsgBanner>> \o (IF use_local THEN <<MsgLocalWarning>> ELSE <<>>)
    /\ pc' = PromptOrder[1]
    /\ UNCHANGED <<launchVars, answerVars, treeVars, raised, postVars, exit_status>>

\* mutant: the destination directory is created as soon as its path is known
AskLocation_creates_destination ==
    /\ pc = "ask_location"
    /\ \E loc \in Locations :
        /\ project_location' = Some(loc)
        /\ defaults_accepted' = (defaults_accepted /\ loc = location_default)
    /\ dirs' = dirs \cup Prefixes(<<>>)
    /\ pc' = StepAfter("ask_location")
    /\ UNCHANGED <<launchVars, depVars, template, routing_strategy, use_src, adapters,
                   files, not_found, raised, resolve_calls, calls, console, postVars,
                   exit_status>>

\* questionary.path(...).unsafe_ask()
AskLocation ==
    /\ pc = "ask_location"
    /\ \E loc \in Locations :
        /\ project_location' = Some(loc)
        /\ defaults_accepted' = (defaults_accepted /\ loc = location_default)
    /\ pc' = StepAfter("ask_location")
    /\ UNCHANGED <<launchVars, depVars, template, routing_strategy, use_src, adapters,
                   treeVars, raised, resolve_calls, calls, console, postVars,
                   exit_status>>

\* questionary.select("Select a starting template:")
AskTemplate ==
    /\ pc = "ask_template"
    /\ \E t \in TemplateChoices :
        /\ template' = Some(t)
        /\ defaults_accepted' = (defaults_accepted /\ t = template_default)
    /\ pc' = StepAfter("ask_template")
    /\ UNCHANGED <<launchVars, depVars, project_location, routing_strategy, use_src,
                   adapters, treeVars, raised, resolve_calls, calls, console,
                   postVars, exit_status>>

\* questionary.select("Choose a routing architecture:")
AskRouting ==
    /\ pc = "ask_routing"
    /\ \E r \in RoutingChoices :
        /\ routing_strategy' = Some(r)
        /\ defaults_accepted' = (defaults_accepted /\ r = routing_default)
    /\ pc' = StepAfter("ask_routing")
    /\ UNCHANGED <<launchVars, depVars, project_location, template, use_src, adapters,
                   treeVars, raised, resolve_calls, calls, console, postVars,
                   exit_status>>

\* questionary.confirm("Use 'src/' directory layout?")
AskUseSrc ==
    /\ pc = "ask_use_src"
    /\ \E b \in BOOLEAN :
        /\ use_src' = Some(b)
        /\ defaults_accepted' = (defaults_accepted /\ b = use_src_default)
    /\ pc' = StepAfter("ask_use_src")
    /\ UNCHANGED <<launchVars, depVars, project_location, template, routing_strategy,
                   adapters, treeVars, raised, resolve_calls, calls, console,
                   postVars, exit_status>>

\* questionary.checkbox("Select deployment adapters to configure:")
AskAdapters ==
    /\ pc = "ask_adapters"
    /\ \E a \in SUBSET AdapterChoices :
        /\ adapters' = Some(a)
        /\ defaults_accepted' = (defaults_accepted /\ a = adapters_default)
    /\ pc' = StepAfter("ask_adapters")
    /\ UNCHANGED <<launchVars, depVars, project_location, template, routing_strategy,
                   use_src, treeVars, raised, resolve_calls, calls, console,
                   postVars, exit_status>>

\* Ctrl-C at a prompt: unsafe_ask() raises KeyboardInterrupt, which the
\* handler at the end of main() turns into the notice and sys.exit(1)
Cancel ==
    /\ pc \in PromptPcs
    /\ raised' = Some([exc |-> "KeyboardInterrupt", name |-> <<pc>>])
    /\ console' = console \o except_KeyboardInterrupt.print
    /\ exit_status' = except_KeyboardInterrupt.status
    /\ pc' = "exited"
    /\ UNCHANGED <<launchVars, depVars, answerVars, treeVars, resolve_calls, calls,
                   postVars>>

\* an exception no handler of main() catches: traceback, exit status 1
Uncaught(exc, name) ==
    /\ raised' = Some([exc |-> exc, name |-> name])
    /\ exit_status' = Some(1)
    /\ pc' = "exited"

\* ProjectGenerator(...).generate()
Generate ==
    /\ pc = "generate"
    /\ LET ops == generate(ProjectName(project_location.val), template.val,
                            routing_strategy.val, use_src.val, adapters.val,
                            pywire_dep.val)
       IN  \E missing \in MissingSets(TemplatesOf(ops)) :
            LET st == RunOps(ops, 1, EmptyTree, missing)
            IN  /\ dirs' = st.dirs
                /\ files' = st.files
                /\ not_found' = missing
                /\ IF st.error = None
                   THEN /\ pc' = "git_init"
                        /\ UNCHANGED <<raised, exit_status>>
                   ELSE Uncaught(st.error.val.exc, st.error.val.name)
    /\ UNCHANGED <<launchVars, depVars, answerVars, resolve_calls, calls, console,
                   postVars>>

\* subprocess.run(["git", "init"], check=True)
GitInit ==
    /\ pc = "git_init"
    /\ \E r \in RunResults :
        /\ calls' = Append(calls, Call("git init", r))
        /\ git_initialized' = (r = "ok")
        /\ IF r = "ok" \/ git_init_caught(r)
           THEN /\ console' = console \o git_init_prints(r)
                /\ pc' = "git_add_commit"
                /\ UNCHANGED <<raised, exit_status>>
           ELSE /\ Uncaught(r, <<"git init">>)
                /\ UNCHANGED console
    /\ UNCHANGED <<launchVars, depVars, answerVars, treeVars, resolve_calls,
                   sync_success, should_show_instructions, commands>>

\* if git_initialized: git add ., git commit; then "Project structure created"
GitAddCommit ==
    /\ pc = "git_add_commit"
    /\ \E r_add \in RunResults, r_commit \in RunResults, has_stderr \in BOOLEAN :
        LET ran == IF ~git_initialized THEN <<>>
                   ELSE IF r_add # "ok" THEN <<Call("git add", r_add)>>
                   ELSE <<Call("git add", r_add), Call("git commit", r_commit)>>
            r   == IF ran = <<>> THEN "ok" ELSE ran[Len(ran)].result
        IN  /\ calls' = calls \o ran
            /\ IF r = "ok" \/ git_commit_caught(r)
               THEN /\ console' = console \o git_commit_prints(r, has_stderr)
                                          \o <<MsgCreated>>
                    /\ pc' = "uv_sync"
                    /\ UNCHANGED <<raised, exit_status>>
               ELSE /\ Uncaught(r, <<"git">>)
                    /\ UNCHANGED console
    /\ UNCHANGED <<launchVars, depVars, answerVars, treeVars, resolve_calls, postVars>>

\* subprocess.run(["uv", "sync"], check=True)
UvSync ==
    /\ pc = "uv_sync"
    /\ \E r \in RunResults :
        /\ calls' = Append(calls, Call("uv sync", r))
        /\ sync_success' = (r = "ok")
        /\ IF r = "ok" \/ uv_sync_caught(r)
           THEN /\ console' = console \o uv_sync_prints(r)
                /\ pc' = "ask_next"
                /\ UNCHANGED <<raised, exit_status>>
           ELSE /\ Uncaught(r, <<"uv sync">>)
                /\ UNCHANGED console
    /\ UNCHANGED <<launchVars, depVars, answerVars, treeVars, resolve_calls,
                   git_initialized, should_show_instructions, commands>>

\* questionary.select("What would you like to do next?")
AskNext ==
    /\ pc = "ask_next"
    /\ \E next_action \in {"start", "instructions"} :
        /\ should_show_instructions' = (next_action = "instructions")
        /\ pc' = IF next_action = "start" THEN "dev_server" ELSE "instructions"
    /\ UNCHANGED <<launchVars, depVars, answerVars, treeVars, raised, resolve_calls,
                   calls, console, git_initialized, sync_success, commands,
                   exit_status>>

\* subprocess.run(["uv", "run", "pywire", "dev"], check=True); return
DevServer ==
    /\ pc = "dev_server"
    /\ \E r \in RunResults :
        /\ calls' = Append(calls, Call("uv run pywire dev", r))
        /\ IF r = "ok"
           THEN /\ exit_status' = Some(0)
                /\ pc' = "exited"
                /\ UNCHANGED <<raised, console, should_show_instructions>>
           ELSE IF dev_server_caught(r)
           THEN /\ console' = console \o dev_server_prints(r)
                /\ should_show_instructions' = TRUE
                /\ pc' = "instructions"
                /\ UNCHANGED <<raised, exit_status>>
           ELSE /\ Uncaught(r, <<"uv run pywire dev">>)
                /\ UNCHANGED <<console, should_show_instructions>>
    /\ UNCHANGED <<launchVars, depVars, answerVars, treeVars, resolve_calls,
                   git_initialized, sync_success, commands>>

\* if should_show_instructions: print the panel; main() returns
ShowInstructions ==
    /\ pc = "instructions"
    /\ IF should_show_instructions
       THEN /\ commands' = instruction_commands(project_location.val, sync_success,
                                                is_windows)
            /\ console' = console \o <<"", MsgPanel>>
       ELSE UNCHANGED <<commands, console>>
    /\ exit_status' = Some(0)
    /\ pc' = "exited"
    /\ UNCHANGED <<launchVars, depVars, answerVars, treeVars, raised, resolve_calls,
                   calls, git_initialized, sync_success, should_show_instructions>>

Next ==
    \/ Startup
    \/ AskLocation
    \/ AskTemplate
    \/ AskRouting
    \/ AskUseSrc
    \/ AskAdapters
    \/ Cancel
    \/ Generate
    \/ GitInit
    \/ GitAddCommit
    \/ UvSync
    \/ AskNext
    \/ DevServer
    \/ ShowInstructions

Spec == Init /\ [][Next]_vars

-----------------------------------------------------------------------------
(* Vocabulary of the properties *)

CallsOf(cmd) == {i \in 1..Len(calls) : calls[i].cmd = cmd}
Called(cmd)  == CallsOf(cmd) # {}
Failed(cmd)  == \E i \in CallsOf(cmd) : calls[i].result # "ok"
Printed(msg) == \E i \in 1..Len(console) : console[i] = msg

\* generate() has returned normally: main() went on to `git init`
GenerateReturned ==
    \/ pc \in {"git_init", "git_add_commit", "uv_sync", "ask_next", "dev_server",
               "instructions"}
    \/ pc = "exited" /\ Called("git init")

Interrupted == raised # None /\ raised.val.exc = "KeyboardInterrupt"

PathsWritten == {files[i].path : i \in 1..Len(files)}

\* the six artifacts every project has
SharedArtifacts(us) ==
    {<<"pyproject.toml">>, <<"README.md">>, <<".gitignore">>,
     <<".vscode", "extensions.json">>,
     app_root(us) \o <<"main.py">>,
     pages_dir(us) \o <<"__error__.wire">>}

\* the artifacts of a kind and routing, as file names under app_root (A) and
\* pages_dir (P)
KindArtifacts(kind, routing, us) ==
    LET A == app_root(us)
        P == pages_dir(us)
        Under(d, names) == {d \o n : n \in names}
    IN  CASE kind = "skeleton" -> Under(P, {<<"index.wire">>})
          [] kind = "counter" /\ routing = "path" ->
                Under(P, {<<"__layout__.wire">>, <<"index.wire">>})
          [] kind = "counter" /\ routing = "explicit" ->
                Under(P, {<<"layout.wire">>, <<"home.wire">>})
          [] kind = "blog" /\ routing = "path" ->
                Under(P, {<<"__layout__.wire">>, <<"index.wire">>,
                          <<"posts", "__layout__.wire">>, <<"posts", "index.wire">>,
                          <<"posts", "[slug].wire">>})
          [] kind = "blog" /\ routing = "explicit" ->
                Under(P, {<<"layout.wire">>, <<"home.wire">>, <<"blog-posts.wire">>,
                          <<"about.wire">>})
          [] kind = "saas" /\ routing = "path" ->
                Under(A, {<<"models.py">>})
                \cup Under(P, {<<"__layout__.wire">>, <<"index.wire">>,
                               <<"pricing.wire">>, <<"login.wire">>,
                               <<"dashboard", "__layout__.wire">>,
                               <<"dashboard", "index.wire">>,
                               <<"dashboard", "settings.wire">>})
          [] kind = "saas" /\ routing = "explicit" ->
                Under(A, {<<"models.py">>})
                \cup Under(P, {<<"public-layout.wire">>, <<"auth-layout.wire">>,
                               <<"landing.wire">>, <<"pricing.wire">>,
                               <<"login.wire">>, <<"dashboard-pages.wire">>})

\* the directories of a kind and routing
KindDirs(kind, routing, us) ==
    (IF kind = "blog" THEN {app_root(us) \o <<"data">>} ELSE {})
    \cup (IF kind = "blog" /\ routing = "path"
          THEN {pages_dir(us) \o <<"posts">>} ELSE {})
    \cup (IF kind = "saas" /\ routing = "path"
          THEN {pages_dir(us) \o <<"dashboard">>} ELSE {})

SharedDirs(us) == {<<>>, app_root(us), pages_dir(us), <<".vscode">>}

\* the directory of the template tree that holds a routing's templates
RoutingDir(routing) == IF routing = "path" THEN "path-based" ELSE "explicit"

\* a template identifier belongs to the request: it is a common one (the entry
\* point being the one of the routing) or one of the kind and routing chosen
OwnTemplate(t, kind, routing) ==
    \/ /\ t[1] = "common"
       /\ t[2] \in {"main-path.py.j2", "main-explicit.py.j2"}
            => t[2] = (IF routing = "path" THEN "main-path.py.j2"
                       ELSE "main-explicit.py.j2")
    \/ /\ t[1] = kind
       /\ Len(t) = 3 => t[2] = RoutingDir(routing)

-----------------------------------------------------------------------------
(* C1 *)

\* C1: with no adapters selected, a generate() that returns has written
\* exactly the six shared artifacts plus the artifacts of the chosen kind and
\* routing, each once, every one of them from a template of that kind and
\* routing, and has created exactly the directories of that combination (so
\* no posts/, dashboard/, data/ or models.py of another kind or routing).
C1_ExactArtifactSet ==
    (GenerateReturned /\ adapters.val = {}) =>
        LET k == template.val
            r == routing_strategy.val
            u == use_src.val
        IN  /\ PathsWritten = SharedArtifacts(u) \cup KindArtifacts(k, r, u)
            /\ Len(files) = Cardinality(PathsWritten)
            /\ \A i \in 1..Len(files) : OwnTemplate(files[i].tmpl, k, r)
            /\ dirs = SharedDirs(u) \cup KindDirs(k, r, u)

\* a saas project with explicit routing and flat layout has been generated
C1_Witness ==
    /\ GenerateReturned
    /\ adapters.val = {}
    /\ template.val = "saas"
    /\ routing_strategy.val = "explicit"
    /\ use_src.val = FALSE
    /\ <<"models.py">> \in PathsWritten

-----------------------------------------------------------------------------
(* C2 *)

\* C2: a KeyboardInterrupt at any of the six prompts ends the run at once: the
\* abort notice is the last line printed, the exit status is 1, nothing that
\* comes after the interrupted prompt has happened (no file, no directory, no
\* git or uv sync call before the request is complete; no dev server and no
\* panel at the last prompt), and no step is taken afterwards.
C2_CancelAborts ==
    /\ [](Interrupted =>
            /\ pc = "exited"
            /\ exit_status = Some(1)
            /\ console # <<>> /\ console[Len(console)] = MsgAbort
            /\ raised.val.name[1] # "ask_next" =>
                   /\ dirs = {} /\ files = <<>>
                   /\ adapters = None
                   /\ ~Called("git init") /\ ~Called("uv sync")
            /\ ~Called("uv run pywire dev")
            /\ ~Printed(MsgPanel))
    /\ [][Interrupted => UNCHANGED vars]_vars

\* the routing prompt was interrupted after two prompts were answered
C2_Witness ==
    /\ Interrupted
    /\ raised.val.name = <<"ask_routing">>
    /\ template # None
    /\ routing_strategy = None

-----------------------------------------------------------------------------
(* C3 *)

\* C3: once generate() has returned, no outcome of git init, git add or git
\* commit ends the run: nothing is raised in the git steps, and every run that
\* has left them (also one that has terminated) has attempted uv sync.
C3_GitNeverAborts ==
    GenerateReturned =>
        /\ pc \in {"git_init", "git_add_commit", "uv_sync"} =>
               raised = None /\ exit_status = None
        /\ pc \in {"ask_next", "dev_server", "instructions", "exited"} =>
               Called("uv sync")

\* git init succeeded, git add succeeded, git commit exited non-zero, and
\* uv sync was attempted
C3_Witness ==
    /\ \E i \in CallsOf("git commit") : calls[i].result = "CalledProcessError"
    /\ Called("uv sync")

-----------------------------------------------------------------------------
(* C4 *)

GitWarnings == {MsgGitSkipped, MsgGitNotFound}

\* position of the first line msg in the console, 0 when it was not printed
FirstPrinted(msg) ==
    IF Printed(msg)
    THEN CHOOSE i \in 1..Len(console) :
            console[i] = msg /\ \A j \in 1..(i - 1) : console[j] # msg
    ELSE 0

\* the git steps are behind the run
PastGit == GenerateReturned /\ pc \notin {"git_init", "git_add_commit"}

\* C4 as stated: once the flow has continued past the git steps, every failed
\* git call (init, add or commit) has a warning line in the console.
C4_EveryGitFailureWarned ==
    PastGit =>
        \A cmd \in {"git init", "git add", "git commit"} :
            Failed(cmd) => \E w \in GitWarnings : Printed(w)

\* C4 amended: a failed git add or git commit has its warning line (the
\* "commit skipped" line for a non-zero exit, the "git not found" line for a
\* missing tool) printed before "Project structure created"; a failed git init
\* prints nothing and is followed by no git add or git commit.
C4_AddCommitFailureWarned ==
    PastGit =>
        /\ \A cmd \in {"git add", "git commit"} : \A i \in CallsOf(cmd) :
              LET w == IF calls[i].result = "CalledProcessError" THEN MsgGitSkipped
                       ELSE MsgGitNotFound
              IN  calls[i].result # "ok" =>
                      /\ Printed(w)
                      /\ FirstPrinted(w) < FirstPrinted(MsgCreated)
        /\ Failed("git init") =>
              /\ \A w \in GitWarnings : ~Printed(w)
              /\ ~Called("git add") /\ ~Called("git commit")

\* git is found for init and add but not for commit, and the flow went on
C4_Witness ==
    /\ PastGit
    /\ \E i \in CallsOf("git commit") : calls[i].result = "FileNotFoundError"
    /\ Printed(MsgGitNotFound)

-----------------------------------------------------------------------------
(* C5 *)

SyncFailed == Failed("uv sync")

\* C5: after a failed uv sync a message of the sync step is in the console
\* behind "Project structure created", nothing was raised by it and the flow is
\* at or past the next-step prompt; and whenever the panel is shown, its command
\* list holds the manual `uv sync` exactly when the sync call did not succeed.
C5_SyncFailureReported ==
    /\ SyncFailed =>
          /\ \E m \in {MsgSyncFailed, MsgUvNotFound} :
                Printed(m) /\ 0 < FirstPrinted(MsgCreated)
                           /\ FirstPrinted(MsgCreated) < FirstPrinted(m)
          /\ pc \in {"ask_next", "dev_server", "instructions", "exited"}
          /\ raised # None => Interrupted
    /\ Printed(MsgPanel) =>
          (CmdUvSync \in Range(commands) <=> SyncFailed)
    /\ CmdUvSync \in Range(commands) => SyncFailed /\ Printed(MsgPanel)

\* uv sync exited non-zero and the panel was shown after a failed dev server
C5_Witness ==
    /\ \E i \in CallsOf("uv sync") : calls[i].result = "CalledProcessError"
    /\ Failed("uv run pywire dev")
    /\ Printed(MsgPanel)
    /\ CmdUvSync \in Range(commands)

-----------------------------------------------------------------------------
(* C6 *)

\* the extra dependencies of a kind
KindExtras(kind) ==
    CASE kind = "blog" -> <<S_markdown>>
      [] kind = "saas" -> <<S_stripe, S_sqlalchemy>>
      [] OTHER         -> <<>>

NoDuplicates(s) == \A i, j \in 1..Len(s) : s[i] = s[j] => i = j

\* C6: the dependency list rendered into pyproject.toml is the core framework
\* specifier followed by the extras of the kind in order, the core specifier
\* first, no entry twice.
C6_DependencyList ==
    \A i \in 1..Len(files) :
        files[i].path = <<"pyproject.toml">> =>
            LET deps == files[i].ctx.val.dependencies
            IN  /\ deps = <<pywire_dep.val>> \o KindExtras(template.val)
                /\ deps[1] = pywire_dep.val
                /\ NoDuplicates(deps)

\* the manifest of a saas project with a pinned core framework was written
C6_Witness ==
    /\ template = Some("saas")
    /\ pywire_dep = Some(S_pywire \o S_eqeq \o S_014)
    /\ \E i \in 1..Len(files) :
          /\ files[i].path = <<"pyproject.toml">>
          /\ Len(files[i].ctx.val.dependencies) = 3

-----------------------------------------------------------------------------
(* C7 *)

\* C7: with USE_LOCAL_PYWIRE=1, whatever --pywire-version says, the specifier
\* is the local-path reference, it is the one the generator writes into the
\* manifest, and resolve_pywire_version is never called (nor is uv pip compile).
C7_LocalOverride ==
    (use_local /\ pc # "start") =>
        /\ pywire_dep = Some(S_LocalDep)
        /\ resolve_calls = <<>>
        /\ ~Called("uv pip compile")
        /\ \A i \in 1..Len(files) :
              files[i].path = <<"pyproject.toml">> =>
                  files[i].ctx.val.dependencies[1] = S_LocalDep

\* a project was generated under the override with --pywire-version Latest
C7_Witness ==
    /\ use_local
    /\ pywire_version_arg = Some(S_Latest)
    /\ GenerateReturned

-----------------------------------------------------------------------------
(* C8 *)

\* resolve_pywire_version was called and its query named no version: uv was
\* missing, exited non-zero, timed out, or printed no "pywire==<version>"
QueryFailed ==
    /\ resolve_calls # <<>>
    /\ \A i \in CallsOf("uv pip compile") :
          calls[i].result = "ok" => re_search_pywire(calls[i].stdout) = None

\* C8 as stated: after a failed version query nothing was raised, the label is
\* "Latest", the specifier is the unpinned core package, and the flow is at
\* (or past) the first prompt.
C8_QueryFailureIgnored ==
    (pc # "start" /\ QueryFailed) =>
        /\ pywire_version_display = Some(S_Latest)
        /\ pywire_dep = Some(S_pywire)
        /\ pc = "ask_location" => raised = None /\ exit_status = None

-----------------------------------------------------------------------------
(* C9 *)

\* position in the write order of the file at path p, 0 when it was not written
WrittenAt(p) ==
    IF p \in PathsWritten THEN CHOOSE i \in 1..Len(files) : files[i].path = p
    ELSE 0

\* C9: after a generate() that returned, Dockerfile is at the project root
\* exactly when the Docker adapter was selected and render.yaml exactly when the
\* Render adapter was, whatever the kind, the routing and the other adapter; and
\* in every state an adapter file that has been written comes after all the
\* artifacts of the kind, which are then all written.
C9_AdaptersIndependent ==
    /\ GenerateReturned =>
          /\ <<"Dockerfile">> \in PathsWritten <=> Docker \in adapters.val
          /\ <<"render.yaml">> \in PathsWritten <=> Render \in adapters.val
    /\ \A a \in {<<"Dockerfile">>, <<"render.yaml">>} :
          a \in PathsWritten =>
              \A k \in KindArtifacts(template.val, routing_strategy.val, use_src.val) :
                  0 < WrittenAt(k) /\ WrittenAt(k) < WrittenAt(a)

\* a blog project with both adapters has been generated
C9_Witness ==
    /\ GenerateReturned
    /\ template.val = "blog"
    /\ adapters.val = {Docker, Render}
    /\ WrittenAt(<<"Dockerfile">>) < WrittenAt(<<"render.yaml">>)

-----------------------------------------------------------------------------
(* C10 *)

\* the files generate() writes for the request when every template is there
FullWriteOrder ==
    RunOps(generate(ProjectName(project_location.val), template.val,
                    routing_strategy.val, use_src.val, adapters.val,
                    pywire_dep.val),
           1, EmptyTree, {}).files

\* C10: when a template generate() needs is missing, the run ends with the
\* exception of the first artifact whose template is missing: the files written
\* are exactly the artifacts before it in the generation order, no git or
\* uv sync call was made, "Project structure created" was not printed, and the
\* exit status is 1, not 0.
C10_MissingTemplateFatal ==
    not_found # {} =>
        LET full == FullWriteOrder
            n    == Len(files)
        IN  /\ pc = "exited"
            /\ n < Len(full)
            /\ files = SubSeq(full, 1, n)
            /\ full[n + 1].tmpl \in not_found
            /\ raised # None
            /\ raised.val.exc \in {"TemplateNotFound", "FileNotFoundError"}
            /\ raised.val.name = full[n + 1].tmpl
            /\ \A cmd \in {"git init", "git add", "git commit", "uv sync"} :
                  ~Called(cmd)
            /\ ~Printed(MsgCreated)
            /\ exit_status = Some(1)

\* the dashboard layout of the saas starter is missing: the run ended after the
\* root layout was written
C10_Witness ==
    /\ not_found = {<<"saas", "path-based", "dashboard__layout__.wire.j2">>}
    /\ raised # None
    /\ raised.val.exc = "TemplateNotFound"
    /\ pages_dir(use_src.val) \o <<"__layout__.wire">> \in PathsWritten
    /\ pages_dir(use_src.val) \o <<"index.wire">> \notin PathsWritten

-----------------------------------------------------------------------------
(* C11 *)

\* C11: a run that generated the project and was not interrupted at a prompt
\* raises nothing afterwards, and when it has terminated its exit status is 0,
\* whatever git init, git add, git commit, uv sync and the dev server did.
C11_NormalCompletionExitsZero ==
    (GenerateReturned /\ ~Interrupted) =>
        /\ raised = None
        /\ pc = "exited" => exit_status = Some(0)
        /\ pc # "exited" => exit_status = None

\* git was missing, uv sync exited non-zero, the dev server exited non-zero,
\* and the run terminated with status 0
C11_Witness ==
    /\ pc = "exited"
    /\ exit_status = Some(0)
    /\ \E i \in CallsOf("git init") : calls[i].result = "FileNotFoundError"
    /\ \E i \in CallsOf("uv sync") : calls[i].result = "CalledProcessError"
    /\ \E i \in CallsOf("uv run pywire dev") : calls[i].result = "CalledProcessError"

-----------------------------------------------------------------------------
(* C12 *)

\* the answers of the five request prompts, in the order the claim gives them
RequestAnswers == <<project_location, template, routing_strategy, use_src, adapters>>

\* something of the generation or of what follows it has happened
GenerationStarted ==
    \/ dirs # {} \/ files # <<>> \/ not_found # {}
    \/ pc \in {"git_init", "git_add_commit", "uv_sync", "ask_next", "dev_server",
               "instructions"}
    \/ \E cmd \in {"git init", "git add", "git commit", "uv sync",
                   "uv run pywire dev"} : Called(cmd)

\* C12: the prompts are answered in the order destination, kind, routing,
\* layout, adapters: a prompt has an answer only if all earlier ones have, a
\* prompt is being asked only when exactly the earlier ones have an answer, and
\* generation has started only if the adapters prompt has an answer.
C12_PromptOrderFixed ==
    /\ \A i \in 2..Len(RequestAnswers) :
          RequestAnswers[i] # None => RequestAnswers[i - 1] # None
    /\ \A i \in 1..Len(RequestAnswers) :
          pc = <<"ask_location", "ask_template", "ask_routing", "ask_use_src",
                 "ask_adapters">>[i] =>
              /\ \A j \in 1..(i - 1) : RequestAnswers[j] # None
              /\ \A j \in i..Len(RequestAnswers) : RequestAnswers[j] = None
    /\ pc = "generate" => adapters # None
    /\ GenerationStarted => adapters # None

\* the layout prompt is being asked: three answers are in, two are not
C12_Witness ==
    /\ pc = "ask_use_src"
    /\ routing_strategy # None
    /\ use_src = None
    /\ adapters = None

-----------------------------------------------------------------------------
(* C13 *)

AllAnswered == \A i \in 1..Len(RequestAnswers) : RequestAnswers[i] # None

\* C13 as stated: the default of the kind prompt is the first entry of its
\* list, skeleton, so accepting every default requests a skeleton project with
\* path-based routing, the src/ layout and no adapters.
C13_DefaultsGiveSkeleton ==
    (AllAnswered /\ defaults_accepted) =>
        /\ template_default = TemplateChoiceList[1]
        /\ template = Some("skeleton")
        /\ routing_strategy = Some("path")
        /\ use_src = Some(TRUE)
        /\ adapters = Some({})

\* C13 amended: the default of the kind prompt is counter, the second entry of
\* its list, so accepting every default requests a counter project with
\* path-based routing, the src/ layout and no adapters.
C13_DefaultsGiveCounter ==
    (AllAnswered /\ defaults_accepted) =>
        /\ template_default = TemplateChoiceList[2]
        /\ template = Some("counter")
        /\ routing_strategy = Some("path")
        /\ use_src = Some(TRUE)
        /\ adapters = Some({})

\* every prompt was answered with its default and the project was generated
C13_Witness ==
    /\ AllAnswered
    /\ defaults_accepted
    /\ GenerateReturned
    /\ pages_dir(TRUE) \o <<"index.wire">> \in PathsWritten

-----------------------------------------------------------------------------
(* C14 *)

Pinned == pywire_version_arg # None

\* C14 as stated: resolve_pywire_version is called exactly when the local
\* override is inactive and no version was pinned; with a pinned version (and
\* no override) the specifier is "pywire==" followed by that string and the
\* label is that string.
C14_QueryOnlyWhenUnpinned ==
    pc # "start" =>
        /\ resolve_calls # <<>> <=> (~use_local /\ ~Pinned)
        /\ Called("uv pip compile") <=> (~use_local /\ ~Pinned)
        /\ (Pinned /\ ~use_local) =>
              /\ pywire_dep = Some(S_pywire \o S_eqeq \o pywire_version_arg.val)
              /\ pywire_version_display = pywire_version_arg

-----------------------------------------------------------------------------
(* C15 *)

\* the subprocesses main() starts in the destination directory
DestinationCommands ==
    {"git init", "git add", "git commit", "uv sync", "uv run pywire dev"}

\* the destination is as it was before the run
DestinationUntouched ==
    /\ dirs = EmptyTree.dirs
    /\ files = EmptyTree.files
    /\ \A cmd \in DestinationCommands : ~Called(cmd)

\* C15: as long as one of the five request prompts has no answer, no directory
\* was created, no file written and no git or uv process started in the
\* destination; so a run interrupted at one of these prompts ends with the
\* destination as it was.
C15_NoEffectBeforeRequest ==
    /\ (\E i \in 1..Len(RequestAnswers) : RequestAnswers[i] = None) =>
          DestinationUntouched
    /\ (Interrupted /\ raised.val.name[1] # "ask_next") =>
          pc = "exited" /\ DestinationUntouched

\* the adapters prompt was interrupted after four answers
C15_Witness ==
    /\ Interrupted
    /\ raised.val.name = <<"ask_adapters">>
    /\ use_src # None
    /\ pc = "exited"

====
